---- MODULE Spec2Model ----
(***************************************************************************)
(* Model of elephant_parsel/postgres_db.py: the waiting connection pool    *)
(* (WaitingThreadedConnectionPool over psycopg2's AbstractConnectionPool), *)
(* the transaction handle (PostgresTransaction) and the facade             *)
(* (PostgresDB) with its retry-once policy.                                *)
(*                                                                         *)
(* Threads call the facade concurrently.  A step of the model is one       *)
(* critical section of the pool (the code under `with self._lock` or       *)
(* `with self._condition`) or one call into the driver on a connection.    *)
(*                                                                         *)
(* The driver (psycopg2) is outside the repository; what the model takes   *)
(* from it:                                                                *)
(*   - AbstractConnectionPool._getconn/_putconn/_closeall/__init__ as of   *)
(*     psycopg2 2.9 (the version the file names at line 64);               *)
(*   - an operation on a connection whose `closed` flag is set raises      *)
(*     InterfaceError; an operation on an open connection succeeds, fails  *)
(*     with a statement-level error, or finds the connection broken, in    *)
(*     which case the driver marks it closed and raises OperationalError;  *)
(*   - after connection.__exit__ (commit or rollback) an open connection   *)
(*     is idle, so _putconn's rollback branch is not taken;                *)
(*   - connection.__enter__ and connection.cursor do not talk to the       *)
(*     server: on an open connection they succeed, or some exception that  *)
(*     is not the driver's (the handlers at lines 180 and 183 catch        *)
(*     BaseException) interrupts them.                                     *)
(***************************************************************************)
EXTENDS Integers, Sequences, FiniteSets

\* ---------------------------------------------------------------- bounds
NThreads == 2
MaxMinconn == 2
MaxMaxconn == 2
MaxConnId == 6
MaxLogins == 1
MaxHandleCallers == 1  \* threads that drive Transaction handles themselves
MaxSqlLen == 5        \* characters of a statement template
MaxRows == 5          \* rows of an argument list
MaxRowValue == 2      \* distinct argument rows
MaxPageSize == 3

Threads == 1..NThreads
NoConn == 0

\* The kinds of exception the model distinguishes.
NoExc == "none"
InterfaceError == "InterfaceError"        \* psycopg2.InterfaceError
OperationalError == "OperationalError"    \* psycopg2.OperationalError
StatementError == "StatementError"        \* any other psycopg2.Error of a statement
PoolExhausted == "PoolExhausted"          \* PoolError("connection pool exhausted")
PoolClosed == "PoolClosed"                \* PoolError("connection pool is closed")
PoolUnkeyed == "PoolUnkeyed"              \* PoolError("trying to put unkeyed connection")
AttributeError == "AttributeError"        \* self._pool is None
ValueError == "ValueError"                \* __backported_split_sql
OtherError == "OtherError"                \* any other exception (BaseException)
UsageError == "PostgresDBException"       \* 'connection already in use' (line 174)

\* The facade operations that go through _attempt_transaction_twice.
FacadeOps == {"query_one", "query_all", "execute_values", "execute"}

VARIABLES
    config,      \* [minconn, maxconn, pool_timeout]: PostgresDB.config after clamping
    gen,         \* number of pools login() has built so far
    dbpool,      \* PostgresDB._pool is not None
    wpool,       \* the pool object: [closed, pool, used]
    waiters,     \* threads blocked in self._condition.wait
    connOpen,    \* connections whose `closed` flag is 0
    autocommit,  \* connections whose `autocommit` attribute is True
    pc,          \* per thread: position in the code
    site,        \* per thread: the call site of the pool call in progress
    conn,        \* per thread: PostgresTransaction.connection of the current handle
    txn,         \* per thread: PostgresTransaction.transaction of the current handle
    cursor,      \* per thread: the connection of PostgresTransaction.cursor of the handle
    exc,         \* per thread: the exception propagating (or the call's outcome)
    attempt,     \* per thread: Transactions opened by the current facade call
    firstErr,    \* per thread: how the first Transaction of the call ended
    firstConn,   \* per thread: the connection of the first Transaction
    waits,       \* per thread: waits performed by the current getconn call
    tries,       \* per thread: _getconn attempts of the current getconn call
    wokenBy,     \* per thread: what ended the wait of the current getconn call
    relSeen,     \* per thread: a putconn grew the available list during the wait
    gcResult,    \* per thread: outcome of the current/last getconn call
    behind,      \* per thread: pools built since the pool whose method it is in
    lone,        \* per thread: no login/logout of another thread has overlapped its logout
    ev           \* the call of _backported_execute_values under study (a record)

poolVars == <<config, gen, dbpool, wpool, waiters, connOpen, autocommit>>
threadVars == <<pc, site, conn, exc, attempt, firstErr, firstConn>>
gcVars == <<waits, tries, wokenBy, relSeen, gcResult>>
lifeVars == <<behind, lone>>
handleVars == <<txn, cursor>>
facadeVars == <<poolVars, threadVars, gcVars, lifeVars, handleVars>>
vars == <<facadeVars, ev>>

\* ------------------------------------------------------- sequence helpers
Range(s) == {s[i] : i \in 1..Len(s)}
Last(s) == s[Len(s)]
Front(s) == SubSeq(s, 1, Len(s) - 1)

\* ------------------------------------------- psycopg2 AbstractConnectionPool
\* AbstractConnectionPool.__init__: minconn connections are opened into the
\* available list; minconn is not compared with maxconn.
NewPool(conns) ==
    [closed |-> FALSE,
     pool   |-> conns,
     used   |-> {}]

\* A bug _getconn could have: the connection handed out stays in the available list.
_getconn_keeps_pooled(p, maxconn, fresh) ==
    IF p.closed
    THEN [err |-> PoolClosed, conn |-> NoConn, p |-> p]
    ELSE IF p.pool # <<>>
    THEN [err |-> NoExc, conn |-> Last(p.pool),
          p |-> [p EXCEPT !.used = @ \cup {Last(p.pool)}]]
    ELSE IF Cardinality(p.used) = maxconn
    THEN [err |-> PoolExhausted, conn |-> NoConn, p |-> p]
    ELSE [err |-> NoExc, conn |-> fresh,
          p |-> [p EXCEPT !.used = @ \cup {fresh}]]

\* _getconn(key=None): a fresh key is drawn for every call, so no call finds
\* its key in _used.  `fresh` is the connection _connect would open.
\* Result: [err, conn, p].
_getconn(p, maxconn, fresh) ==
    IF p.closed
    THEN [err |-> PoolClosed, conn |-> NoConn, p |-> p]
    ELSE IF p.pool # <<>>
    THEN [err |-> NoExc, conn |-> Last(p.pool),
          p |-> [p EXCEPT !.pool = Front(p.pool),
                          !.used = @ \cup {Last(p.pool)}]]
    ELSE IF Cardinality(p.used) = maxconn
    THEN [err |-> PoolExhausted, conn |-> NoConn, p |-> p]
    ELSE [err |-> NoExc, conn |-> fresh,
          p |-> [p EXCEPT !.used = @ \cup {fresh}]]

\* A bug _putconn could have: a closed connection goes back to the available list.
_putconn_keeps_closed(p, c, close, isClosed, minconn) ==
    IF p.closed
    THEN [err |-> PoolClosed, p |-> p, closes |-> FALSE]
    ELSE IF c \notin p.used
    THEN [err |-> PoolUnkeyed, p |-> p, closes |-> FALSE]
    ELSE IF Len(p.pool) < minconn /\ ~close
    THEN [err |-> NoExc, closes |-> FALSE,
          p |-> [p EXCEPT !.pool = Append(@, c), !.used = @ \ {c}]]
    ELSE [err |-> NoExc, closes |-> TRUE,
          p |-> [p EXCEPT !.used = @ \ {c}]]

\* A bug _putconn could have: a connection found closed stays among the used
\* ones.
_putconn_leaks_closed(p, c, close, isClosed, minconn) ==
    IF p.closed
    THEN [err |-> PoolClosed, p |-> p, closes |-> FALSE]
    ELSE IF c \notin p.used
    THEN [err |-> PoolUnkeyed, p |-> p, closes |-> FALSE]
    ELSE IF isClosed
    THEN [err |-> NoExc, closes |-> FALSE, p |-> p]
    ELSE IF Len(p.pool) < minconn /\ ~close
    THEN [err |-> NoExc, closes |-> FALSE,
          p |-> [p EXCEPT !.pool = Append(@, c), !.used = @ \ {c}]]
    ELSE [err |-> NoExc, closes |-> TRUE,
          p |-> [p EXCEPT !.used = @ \ {c}]]

\* _putconn(conn, key=None, close=False).  isClosed is conn.closed.
\* Result: [err, p, closes]; closes: conn.close() was called.
_putconn(p, c, close, isClosed, minconn) ==
    IF p.closed
    THEN [err |-> PoolClosed, p |-> p, closes |-> FALSE]
    ELSE IF c \notin p.used
    THEN [err |-> PoolUnkeyed, p |-> p, closes |-> FALSE]
    ELSE IF Len(p.pool) < minconn /\ ~close
    THEN IF ~isClosed
         THEN [err |-> NoExc, closes |-> FALSE,
               p |-> [p EXCEPT !.pool = Append(@, c), !.used = @ \ {c}]]
         ELSE [err |-> NoExc, closes |-> FALSE,
               p |-> [p EXCEPT !.used = @ \ {c}]]
    ELSE [err |-> NoExc, closes |-> TRUE,
          p |-> [p EXCEPT !.used = @ \ {c}]]

\* _closeall().  Result: [err, p, closes]; closes: the connections closed.
_closeall(p) ==
    IF p.closed
    THEN [err |-> PoolClosed, p |-> p, closes |-> {}]
    ELSE [err |-> NoExc, p |-> [p EXCEPT !.closed = TRUE],
          closes |-> Range(p.pool) \cup p.used]

\* ----------------------------------------------------------- initial state
\* PostgresDB.__init__ (connect=True): minconn and maxconn are clamped to at
\* least 1 each, pool_timeout is None or a number of seconds ("T"; a wait of
\* T = 0 is a wait that times out at once), and login() builds the pool.
Configs ==
    [minconn : 1..MaxMinconn, maxconn : 1..MaxMaxconn, pool_timeout : {"None", "T"}]

InitFacade ==
    /\ config \in Configs
    /\ gen = 1
    /\ dbpool = TRUE
    /\ wpool = NewPool([i \in 1..config.minconn |-> i])
    /\ waiters = {}
    /\ connOpen = 1..config.minconn
    /\ autocommit = {}
    /\ pc = [t \in Threads |-> "idle"]
    /\ site = [t \in Threads |-> "none"]
    /\ conn = [t \in Threads |-> NoConn]
    /\ txn = [t \in Threads |-> NoConn]
    /\ cursor = [t \in Threads |-> NoConn]
    /\ exc = [t \in Threads |-> NoExc]
    /\ attempt = [t \in Threads |-> 0]
    /\ firstErr = [t \in Threads |-> NoExc]
    /\ firstConn = [t \in Threads |-> NoConn]
    /\ waits = [t \in Threads |-> 0]
    /\ tries = [t \in Threads |-> 0]
    /\ wokenBy = [t \in Threads |-> "none"]
    /\ relSeen = [t \in Threads |-> FALSE]
    /\ gcResult = [t \in Threads |-> "none"]
    /\ behind = [t \in Threads |-> 0]
    /\ lone = [t \in Threads |-> FALSE]

\* No call of _backported_execute_values is looked into.
NoBatch ==
    [pc |-> "none", sql |-> <<>>, argslist |-> <<>>, page_size |-> 1, fetch |-> FALSE,
     err |-> NoExc, pre |-> <<>>, post |-> <<>>, it |-> 0, page |-> <<>>,
     executed |-> <<>>, fetched |-> <<>>, result |-> <<>>]

Init == InitFacade /\ ev = NoBatch

\* A bug the retry could have: every InterfaceError leads to one more Transaction.
_attempt_transaction_again(t, c, e) ==
    /\ conn' = [conn EXCEPT ![t] = c]
    /\ exc' = [exc EXCEPT ![t] = e]
    /\ firstErr' = IF attempt[t] = 1 THEN [firstErr EXCEPT ![t] = e] ELSE firstErr
    /\ IF attempt[t] <= 2 /\ e = InterfaceError
       THEN /\ pc' = [pc EXCEPT ![t] = "with"]
            /\ attempt' = [attempt EXCEPT ![t] = @ + 1]
            /\ firstConn' = firstConn
       ELSE /\ pc' = [pc EXCEPT ![t] = "done"]
            /\ attempt' = attempt
            /\ firstConn' = [firstConn EXCEPT ![t] = NoConn]
    /\ site' = [site EXCEPT ![t] = "none"]

\* A bug the retry could have: any error of the first Transaction is retried.
_attempt_transaction_twice_any_error(t, c, e) ==
    /\ conn' = [conn EXCEPT ![t] = c]
    /\ exc' = [exc EXCEPT ![t] = e]
    /\ firstErr' = IF attempt[t] = 1 THEN [firstErr EXCEPT ![t] = e] ELSE firstErr
    /\ IF attempt[t] = 1 /\ e # NoExc
       THEN /\ pc' = [pc EXCEPT ![t] = "with"]
            /\ attempt' = [attempt EXCEPT ![t] = 2]
            /\ firstConn' = firstConn
       ELSE /\ pc' = [pc EXCEPT ![t] = "done"]
            /\ attempt' = attempt
            /\ firstConn' = [firstConn EXCEPT ![t] = NoConn]
    /\ site' = [site EXCEPT ![t] = "none"]

\* ------------------------------------------- PostgresDB._attempt_transaction_twice
\* The `with self.transaction()` statement of thread t has ended with the
\* handle's connection reference c and exception e (NoExc: it returned).
\* Only an InterfaceError out of the first `with` leads to the second one.
\* firstErr and firstConn record the first Transaction for the second.
_attempt_transaction_twice(t, c, e) ==
    /\ conn' = [conn EXCEPT ![t] = c]
    /\ exc' = [exc EXCEPT ![t] = e]
    /\ firstErr' = IF attempt[t] = 1 THEN [firstErr EXCEPT ![t] = e] ELSE firstErr
    /\ IF attempt[t] = 1 /\ e = InterfaceError
       THEN /\ pc' = [pc EXCEPT ![t] = "with"]
            /\ attempt' = [attempt EXCEPT ![t] = 2]
            /\ firstConn' = firstConn
       ELSE /\ pc' = [pc EXCEPT ![t] = "done"]
            /\ attempt' = attempt
            /\ firstConn' = [firstConn EXCEPT ![t] = NoConn]
    /\ site' = [site EXCEPT ![t] = "none"]

\* The Transaction handle of thread t is no longer referred to (the `with`
\* statement of _attempt_transaction_twice has ended, or the caller has let
\* go of a handle it got from transaction()).
HandleDropped(t) ==
    /\ txn' = [txn EXCEPT ![t] = NoConn]
    /\ cursor' = [cursor EXCEPT ![t] = NoConn]

\* Thread t uses a handle it got from transaction() itself (line 310), not
\* through a facade operation.
Direct(t) == attempt[t] = 0 /\ site[t] # "nontx"

\* __enter__ or __exit__ of a handle the caller holds is left with connection
\* reference c and exception e: the caller still has the handle.
HandleLeft(t, c, e) ==
    /\ pc' = [pc EXCEPT ![t] = "held"]
    /\ conn' = [conn EXCEPT ![t] = c]
    /\ exc' = [exc EXCEPT ![t] = e]
    /\ site' = [site EXCEPT ![t] = "none"]
    /\ UNCHANGED <<attempt, firstErr, firstConn, txn, cursor>>

\* The `with` statement on the handle of thread t ends.
WithEnds(t, c, e) ==
    IF Direct(t)
    THEN HandleLeft(t, c, e)
    ELSE _attempt_transaction_twice(t, c, e) /\ HandleDropped(t)

\* execute(use_transaction=False), lines 369-377, is left by thread t with
\* exception e (NoExc: it returned); its local `connection` is gone with it.
\* Nothing catches e: this path has no retry.
ExecuteEnds(t, e) ==
    /\ pc' = [pc EXCEPT ![t] = "done"]
    /\ exc' = [exc EXCEPT ![t] = e]
    /\ conn' = [conn EXCEPT ![t] = NoConn]
    /\ site' = [site EXCEPT ![t] = "none"]
    /\ UNCHANGED <<attempt, firstErr, firstConn, handleVars>>

\* The record of a thread's getconn call (waits, tries, wokenBy, relSeen,
\* gcResult) is kept until the caller goes on; it is no state of the program.
GetconnForget(t) ==
    /\ waits' = [waits EXCEPT ![t] = 0]
    /\ tries' = [tries EXCEPT ![t] = 0]
    /\ wokenBy' = [wokenBy EXCEPT ![t] = "none"]
    /\ relSeen' = [relSeen EXCEPT ![t] = FALSE]
    /\ gcResult' = [gcResult EXCEPT ![t] = "none"]

\* A thread is free for a call when it has made none yet or its last call
\* has returned or raised ("done": exc holds how it ended), or when all it has
\* is a handle it is not inside of ("held").
Free(t) == pc[t] \in {"idle", "done", "held"}

\* query_one / query_all / execute_values / execute(use_transaction=True),
\* lines 326-367: each hands its closure to _attempt_transaction_twice.
StartCall(t) ==
    /\ Free(t)
    /\ pc' = [pc EXCEPT ![t] = "with"]
    /\ attempt' = [attempt EXCEPT ![t] = 1]
    /\ site' = [site EXCEPT ![t] = "none"]
    /\ conn' = [conn EXCEPT ![t] = NoConn]
    /\ exc' = [exc EXCEPT ![t] = NoExc]
    /\ firstErr' = [firstErr EXCEPT ![t] = NoExc]
    /\ firstConn' = [firstConn EXCEPT ![t] = NoConn]
    /\ GetconnForget(t)
    /\ UNCHANGED poolVars
    /\ UNCHANGED lifeVars
    /\ HandleDropped(t)
    /\ UNCHANGED ev

\* ------------------------------------------------ PostgresTransaction.__enter__
\* PostgresDB.transaction() and __enter__ up to the call of getconn: a new
\* handle (connection None), then self._db._pool is read.
TxEnter(t) ==
    /\ pc[t] = "with"
    /\ GetconnForget(t)
    /\ IF dbpool
       THEN /\ pc' = [pc EXCEPT ![t] = "getconn"]
            /\ site' = [site EXCEPT ![t] = "enter"]
            /\ conn' = [conn EXCEPT ![t] = NoConn]
            /\ exc' = [exc EXCEPT ![t] = NoExc]
            /\ UNCHANGED <<attempt, firstErr, firstConn, handleVars>>
       ELSE WithEnds(t, NoConn, AttributeError)
    /\ UNCHANGED poolVars
    /\ UNCHANGED lifeVars
    /\ UNCHANGED ev

\* getconn has returned connection c to its caller: line 175 of __enter__, or
\* line 369 of execute (site "nontx").
GetconnReturn(t, c) ==
    /\ conn' = [conn EXCEPT ![t] = c]
    /\ firstConn' = IF attempt[t] = 1 THEN [firstConn EXCEPT ![t] = c] ELSE firstConn
    /\ pc' = [pc EXCEPT ![t] = IF site[t] = "nontx" THEN "nt_set" ELSE "conn_enter"]
    /\ UNCHANGED <<site, exc, attempt, firstErr, handleVars>>

\* getconn has raised e to its caller: __enter__ lets it pass, and so does
\* execute at line 369.
GetconnRaise(t, e) ==
    IF site[t] = "nontx"
    THEN ExecuteEnds(t, e)
    ELSE WithEnds(t, conn[t], e)

\* ------------------------------------- WaitingThreadedConnectionPool.getconn
\* The connections some part of the program still refers to.
Live ==
    Range(wpool.pool) \cup wpool.used
        \cup {conn[t] : t \in Threads} \cup {firstConn[t] : t \in Threads}
        \cup {txn[t] : t \in Threads} \cup {cursor[t] : t \in Threads}

\* A connection is identified as the pool does it, by id(conn): the identity
\* of a connection nothing refers to any more is free for a new one.
FreeIds == (1..MaxConnId) \ Live
FreshId ==
    IF FreeIds = {} THEN NoConn
    ELSE CHOOSE i \in FreeIds : \A j \in FreeIds : i <= j

\* _connect opens a connection only while identities are left.
CanConnect(p) == p.closed \/ p.pool # <<>> \/ FreeIds # {}
Connects(p, r) == r.err = NoExc /\ p.pool = <<>>

\* login() replaces the facade's pool only after logout() has closed it (see
\* Login): of a replaced pool a thread still inside one of its methods sees
\* that it is closed, and its condition variable.
ClosedPool == [closed |-> TRUE, pool |-> <<>>, used |-> {}]
Stale(t) == behind[t] > 0
PoolOf(t) == IF Stale(t) THEN ClosedPool ELSE wpool

\* The threads waiting on the condition variable of the pool thread t is in.
WaitersWith(t) == {w \in waiters : behind[w] = behind[t]}

\* Thread t leaves the pool method it was in.
LeavesPool(t) == behind' = [behind EXCEPT ![t] = 0]

\* Lines 130-133: the first attempt, under the lock.
GetconnFirst(t) ==
    /\ pc[t] = "getconn"
    /\ CanConnect(PoolOf(t)) \/ Cardinality(wpool.used) = config.maxconn
    /\ LET r == _getconn(PoolOf(t), config.maxconn, FreshId) IN
       /\ wpool' = IF Stale(t) THEN wpool ELSE r.p
       /\ connOpen' = IF Connects(PoolOf(t), r) THEN connOpen \cup {r.conn} ELSE connOpen
       /\ autocommit' = IF Connects(PoolOf(t), r) THEN autocommit \ {r.conn} ELSE autocommit
       /\ tries' = [tries EXCEPT ![t] = 1]
       /\ IF r.err = NoExc
          THEN /\ gcResult' = [gcResult EXCEPT ![t] = "conn"]
               /\ GetconnReturn(t, r.conn)
          ELSE /\ gcResult' = gcResult
               /\ pc' = [pc EXCEPT ![t] = "gc_except"]
               /\ exc' = [exc EXCEPT ![t] = r.err]
               /\ UNCHANGED <<site, conn, attempt, firstErr, firstConn, handleVars>>
    /\ UNCHANGED <<config, gen, dbpool, waiters, waits, wokenBy, relSeen>>
    /\ UNCHANGED lifeVars
    /\ UNCHANGED ev

\* A bug the handler could have: it goes on to the wait on a closed pool too.
GetconnExceptSwallows(t) ==
    /\ pc[t] = "gc_except"
    /\ gcResult' = gcResult
    /\ pc' = [pc EXCEPT ![t] = "prewait"]
    /\ exc' = [exc EXCEPT ![t] = NoExc]
    /\ UNCHANGED <<site, conn, attempt, firstErr, firstConn, handleVars>>
    /\ UNCHANGED <<poolVars, waits, tries, wokenBy, relSeen>>
    /\ UNCHANGED lifeVars
    /\ UNCHANGED ev

\* Lines 133-135: the handler re-raises when the pool is closed (self.closed
\* is read without the lock) and otherwise goes on to the wait.
GetconnExcept(t) ==
    /\ pc[t] = "gc_except"
    /\ IF PoolOf(t).closed
       THEN /\ gcResult' = [gcResult EXCEPT ![t] = exc[t]]
            /\ GetconnRaise(t, exc[t])
            /\ LeavesPool(t)
       ELSE /\ gcResult' = gcResult
            /\ pc' = [pc EXCEPT ![t] = "prewait"]
            /\ exc' = [exc EXCEPT ![t] = NoExc]
            /\ UNCHANGED <<site, conn, attempt, firstErr, firstConn, behind, handleVars>>
    /\ UNCHANGED lone
    /\ UNCHANGED <<poolVars, waits, tries, wokenBy, relSeen>>
    /\ UNCHANGED ev

\* Lines 136-137: the thread takes the condition's lock and waits.
GetconnWait(t) ==
    /\ pc[t] = "prewait"
    /\ pc' = [pc EXCEPT ![t] = "waiting"]
    /\ waiters' = waiters \cup {t}
    /\ waits' = [waits EXCEPT ![t] = @ + 1]
    /\ UNCHANGED <<config, gen, dbpool, wpool, connOpen, autocommit,
                   site, conn, exc, attempt, firstErr, firstConn,
                   tries, wokenBy, relSeen, gcResult>>
    /\ UNCHANGED lifeVars
    /\ UNCHANGED handleVars
    /\ UNCHANGED ev

\* Line 137: wait(pool_timeout) gives up after pool_timeout seconds;
\* wait(None) never does.
Timeout(t) ==
    /\ pc[t] = "waiting"
    /\ t \in waiters
    /\ config.pool_timeout # "None"
    /\ waiters' = waiters \ {t}
    /\ wokenBy' = [wokenBy EXCEPT ![t] = "timeout"]
    /\ UNCHANGED <<config, gen, dbpool, wpool, connOpen, autocommit, threadVars,
                   waits, tries, relSeen, gcResult>>
    /\ UNCHANGED lifeVars
    /\ UNCHANGED handleVars
    /\ UNCHANGED ev

\* A bug getconn could have: a loop, waiting again while the pool is exhausted.
GetconnSecondLoops(t) ==
    /\ pc[t] = "waiting"
    /\ t \notin waiters
    /\ CanConnect(PoolOf(t)) \/ Cardinality(wpool.used) = config.maxconn
    /\ LET r == _getconn(PoolOf(t), config.maxconn, FreshId) IN
       /\ wpool' = IF Stale(t) THEN wpool ELSE r.p
       /\ connOpen' = IF Connects(PoolOf(t), r) THEN connOpen \cup {r.conn} ELSE connOpen
       /\ autocommit' = IF Connects(PoolOf(t), r) THEN autocommit \ {r.conn} ELSE autocommit
       /\ tries' = [tries EXCEPT ![t] = @ + 1]
       /\ IF r.err = NoExc
          THEN /\ gcResult' = [gcResult EXCEPT ![t] = "conn"]
               /\ GetconnReturn(t, r.conn)
          ELSE IF r.err = PoolExhausted /\ tries[t] < 3
          THEN /\ gcResult' = gcResult
               /\ pc' = [pc EXCEPT ![t] = "prewait"]
               /\ UNCHANGED <<site, conn, exc, attempt, firstErr, firstConn, handleVars>>
          ELSE /\ gcResult' = [gcResult EXCEPT ![t] = r.err]
               /\ GetconnRaise(t, r.err)
    /\ UNCHANGED <<config, gen, dbpool, waiters, waits, wokenBy, relSeen>>
    /\ LeavesPool(t) /\ UNCHANGED lone
    /\ UNCHANGED ev

\* Lines 138-139: after the wait, the second attempt; its error is not caught.
GetconnSecond(t) ==
    /\ pc[t] = "waiting"
    /\ t \notin waiters
    /\ CanConnect(PoolOf(t)) \/ Cardinality(wpool.used) = config.maxconn
    /\ LET r == _getconn(PoolOf(t), config.maxconn, FreshId) IN
       /\ wpool' = IF Stale(t) THEN wpool ELSE r.p
       /\ connOpen' = IF Connects(PoolOf(t), r) THEN connOpen \cup {r.conn} ELSE connOpen
       /\ autocommit' = IF Connects(PoolOf(t), r) THEN autocommit \ {r.conn} ELSE autocommit
       /\ tries' = [tries EXCEPT ![t] = @ + 1]
       /\ IF r.err = NoExc
          THEN /\ gcResult' = [gcResult EXCEPT ![t] = "conn"]
               /\ GetconnReturn(t, r.conn)
          ELSE /\ gcResult' = [gcResult EXCEPT ![t] = r.err]
               /\ GetconnRaise(t, r.err)
    /\ UNCHANGED <<config, gen, dbpool, waiters, waits, wokenBy, relSeen>>
    /\ LeavesPool(t) /\ UNCHANGED lone
    /\ UNCHANGED ev

\* ----------------------------------------------------------------- the driver
\* What a statement run on an open connection can do: succeed, fail with a
\* statement-level error, or find the connection broken.
StatementOutcomes == {"ok", "error", "broken"}

\* The exception a driver call on connection c raises, given the outcome drawn.
DriverExc(c, outcome) ==
    IF c \notin connOpen THEN InterfaceError
    ELSE IF outcome = "broken" THEN OperationalError
    ELSE IF outcome = "error" THEN StatementError
    ELSE NoExc

\* The driver marks a connection it finds broken as closed.
DriverOpen(c, outcome) ==
    IF outcome = "broken" THEN connOpen \ {c} ELSE connOpen

\* What connection.__enter__ or connection.cursor can do on an open connection.
EnterOutcomes == {"ok", "error"}

\* The handler at line 183 is entered with exception e: putconn is next (line
\* 184).  The fields the failed __enter__ has set stay as they are.
EnterFails(t, e) ==
    /\ pc' = [pc EXCEPT ![t] = "putconn"]
    /\ site' = [site EXCEPT ![t] = "enterfail"]
    /\ exc' = [exc EXCEPT ![t] = e]
    /\ UNCHANGED handleVars

\* Line 177: connection.__enter__() raises on a closed connection; the handler
\* at line 183 then releases the connection (line 184).
ConnEnter(t) ==
    /\ pc[t] = "conn_enter"
    /\ \E o \in EnterOutcomes :
          IF conn[t] \notin connOpen
          THEN EnterFails(t, InterfaceError)
          ELSE IF o = "error"
          THEN EnterFails(t, OtherError)
          ELSE /\ pc' = [pc EXCEPT ![t] = "cursor"]
               /\ txn' = [txn EXCEPT ![t] = conn[t]]
               /\ UNCHANGED <<site, exc>>
    /\ GetconnForget(t)
    /\ UNCHANGED <<poolVars, conn, attempt, firstErr, firstConn, cursor>>
    /\ UNCHANGED lifeVars
    /\ UNCHANGED ev

\* Lines 178-182: cursor() raises on a closed connection, and so does the
\* rollback of transaction.__exit__ at line 181, whose exception replaces the
\* one of cursor(); then line 184 as above.
CursorOpen(t) ==
    /\ pc[t] = "cursor"
    /\ \E o \in EnterOutcomes, r \in {"ok", "broken"} :
          IF conn[t] \notin connOpen
          THEN /\ EnterFails(t, InterfaceError)
               /\ connOpen' = connOpen
          ELSE IF o = "error"
          THEN /\ EnterFails(t, IF r = "broken" THEN OperationalError ELSE OtherError)
               /\ connOpen' = DriverOpen(conn[t], r)
          ELSE /\ pc' = [pc EXCEPT ![t] = "body"]
               /\ connOpen' = connOpen
               /\ cursor' = [cursor EXCEPT ![t] = conn[t]]
               /\ UNCHANGED <<site, exc, txn>>
    /\ UNCHANGED <<config, gen, dbpool, wpool, waiters, autocommit, gcVars,
                   conn, attempt, firstErr, firstConn>>
    /\ UNCHANGED lifeVars
    /\ UNCHANGED ev

\* use_transaction(transaction), lines 315 and 324: the closure of the facade
\* operation runs its statement on the handle's cursor (lines 197-224).  The
\* four operations differ in this closure only, so which one is running is
\* drawn here.  execute_values first splits the statement (line 75), which
\* raises ValueError before the cursor is used.
Body(t) ==
    /\ pc[t] = "body"
    /\ \E o \in FacadeOps :
          \/ \E r \in StatementOutcomes :
                /\ exc' = [exc EXCEPT ![t] = DriverExc(conn[t], r)]
                /\ connOpen' = DriverOpen(conn[t], r)
          \/ /\ o = "execute_values"
             /\ exc' = [exc EXCEPT ![t] = ValueError]
             /\ connOpen' = connOpen
    /\ pc' = [pc EXCEPT ![t] = "tx_exit"]
    /\ UNCHANGED <<config, gen, dbpool, wpool, waiters, autocommit, gcVars,
                   site, conn, attempt, firstErr, firstConn>>
    /\ UNCHANGED lifeVars
    /\ UNCHANGED handleVars
    /\ UNCHANGED ev

\* ------------------------------------------------- PostgresTransaction.__exit__
\* Lines 190-193: transaction.__exit__ commits when the body returned and
\* rolls back when it raised; what it raises replaces the body's exception.
\* The finally clause clears the transaction field (line 193), not the cursor.
\* A commit can fail with a statement-level error, a rollback cannot.  The
\* finally clause then calls putconn (line 194).
ExitOutcomes(e) == IF e = NoExc THEN {"ok", "error", "broken"} ELSE {"ok", "broken"}

\* A bug __exit__ could have: no finally clause, so that an exception of
\* transaction.__exit__ skips putconn.
TxExitNoFinally(t) ==
    /\ pc[t] = "tx_exit"
    /\ \E o \in ExitOutcomes(exc[t]) :
          /\ connOpen' = DriverOpen(conn[t], o)
          /\ IF DriverExc(conn[t], o) = NoExc
             THEN /\ pc' = [pc EXCEPT ![t] = "putconn"]
                  /\ site' = [site EXCEPT ![t] = "exit"]
                  /\ txn' = [txn EXCEPT ![t] = NoConn]
                  /\ UNCHANGED <<conn, exc, attempt, firstErr, firstConn, cursor>>
             ELSE WithEnds(t, conn[t], DriverExc(conn[t], o))
    /\ UNCHANGED <<config, gen, dbpool, wpool, waiters, autocommit, gcVars>>
    /\ UNCHANGED lifeVars
    /\ UNCHANGED ev

TxExit(t) ==
    /\ pc[t] = "tx_exit"
    /\ \E o \in ExitOutcomes(exc[t]) :
          /\ exc' = [exc EXCEPT ![t] =
                IF DriverExc(conn[t], o) = NoExc THEN @ ELSE DriverExc(conn[t], o)]
          /\ connOpen' = DriverOpen(conn[t], o)
    /\ pc' = [pc EXCEPT ![t] = "putconn"]
    /\ site' = [site EXCEPT ![t] = "exit"]
    /\ txn' = [txn EXCEPT ![t] = NoConn]
    /\ UNCHANGED <<config, gen, dbpool, wpool, waiters, autocommit, gcVars,
                   conn, attempt, firstErr, firstConn, cursor>>
    /\ UNCHANGED lifeVars
    /\ UNCHANGED ev

\* A bug the handle could have: line 185/195 missing, the reference stays.
PutconnReturnKeepsReference(t) == WithEnds(t, conn[t], exc[t])

\* putconn has returned to line 185 or 195: the handle drops its connection
\* and the pending exception (if any) leaves the `with` statement.
\* At line 377 the pending exception (if any) leaves execute.
PutconnReturn(t) ==
    IF site[t] = "nontx"
    THEN ExecuteEnds(t, exc[t])
    ELSE WithEnds(t, NoConn, exc[t])

\* putconn (or reading self._db._pool) has raised e: it replaces the pending
\* exception, and line 185/195 is not reached.
PutconnRaise(t, e) ==
    IF site[t] = "nontx"
    THEN ExecuteEnds(t, e)
    ELSE WithEnds(t, conn[t], e)

\* ------------------------------------- WaitingThreadedConnectionPool.putconn
\* The autocommit attribute of a closed connection that execute's local
\* variable was the last to refer to is gone with the connection.
AutocommitLeft(t, open) ==
    IF site[t] = "nontx" THEN autocommit \ ({conn[t]} \ open) ELSE autocommit

\* Lines 143-146, under the lock; before them self._db._pool is read.
PutconnLocked(t) ==
    /\ pc[t] = "putconn"
    /\ IF ~dbpool
       THEN /\ PutconnRaise(t, AttributeError)
            /\ autocommit' = AutocommitLeft(t, connOpen)
            /\ UNCHANGED <<wpool, connOpen, relSeen>>
       ELSE LET r == _putconn(wpool, conn[t], FALSE, conn[t] \notin connOpen,
                              config.minconn)
                pool_increased == Len(r.p.pool) > Len(wpool.pool)
            IN /\ wpool' = r.p
               /\ connOpen' = IF r.closes THEN connOpen \ {conn[t]} ELSE connOpen
               /\ IF r.err # NoExc
                  THEN /\ PutconnRaise(t, r.err)
                       /\ autocommit' = AutocommitLeft(t, connOpen)
                       /\ relSeen' = relSeen
                  ELSE IF pool_increased
                  THEN /\ pc' = [pc EXCEPT ![t] = "notify"]
                       /\ UNCHANGED handleVars
                       /\ autocommit' = autocommit
                       /\ relSeen' = [w \in Threads |-> relSeen[w] \/ w \in WaitersWith(t)]
                       /\ UNCHANGED <<site, conn, exc, attempt, firstErr, firstConn>>
                  ELSE /\ PutconnReturn(t)
                       /\ autocommit' = AutocommitLeft(t, connOpen \ {conn[t]})
                       /\ relSeen' = relSeen
    /\ UNCHANGED <<config, gen, dbpool, waiters, waits, tries, wokenBy, gcResult>>
    /\ UNCHANGED lifeVars
    /\ UNCHANGED ev

\* Lines 147-149: notify() wakes one waiting thread, if there is one.
PutconnNotify(t) ==
    /\ pc[t] = "notify"
    /\ IF WaitersWith(t) = {}
       THEN UNCHANGED <<waiters, wokenBy>>
       ELSE \E w \in WaitersWith(t) :
               /\ waiters' = waiters \ {w}
               /\ wokenBy' = [wokenBy EXCEPT ![w] = "notify"]
    /\ PutconnReturn(t)
    /\ LeavesPool(t)
    /\ UNCHANGED lone
    /\ UNCHANGED <<config, gen, dbpool, wpool, connOpen, autocommit,
                   waits, tries, relSeen, gcResult>>
    /\ UNCHANGED ev

\* ------------------------------------ PostgresDB.execute(use_transaction=False)
\* Lines 355-363: the call begins; no Transaction is made.
StartExecute(t) ==
    /\ Free(t)
    /\ pc' = [pc EXCEPT ![t] = "execute"]
    /\ attempt' = [attempt EXCEPT ![t] = 0]
    /\ site' = [site EXCEPT ![t] = "none"]
    /\ conn' = [conn EXCEPT ![t] = NoConn]
    /\ exc' = [exc EXCEPT ![t] = NoExc]
    /\ firstErr' = [firstErr EXCEPT ![t] = NoExc]
    /\ firstConn' = [firstConn EXCEPT ![t] = NoConn]
    /\ GetconnForget(t)
    /\ UNCHANGED <<poolVars, lifeVars>>
    /\ HandleDropped(t)
    /\ UNCHANGED ev

\* Line 369: self._pool is read and getconn called on it.
ExecuteGetconn(t) ==
    /\ pc[t] = "execute"
    /\ IF dbpool
       THEN /\ pc' = [pc EXCEPT ![t] = "getconn"]
            /\ site' = [site EXCEPT ![t] = "nontx"]
            /\ UNCHANGED <<conn, exc, attempt, firstErr, firstConn>>
       ELSE ExecuteEnds(t, AttributeError)
    /\ UNCHANGED <<poolVars, gcVars, lifeVars>>
    /\ UNCHANGED handleVars
    /\ UNCHANGED ev

\* Line 371: set_session(autocommit=True) raises on a closed connection, and
\* the outer finally clause (line 377) is next.
NtSetSession(t) ==
    /\ pc[t] = "nt_set"
    /\ IF conn[t] \notin connOpen
       THEN /\ pc' = [pc EXCEPT ![t] = "putconn"]
            /\ exc' = [exc EXCEPT ![t] = InterfaceError]
            /\ autocommit' = autocommit
       ELSE /\ pc' = [pc EXCEPT ![t] = "nt_stmt"]
            /\ exc' = exc
            /\ autocommit' = autocommit \cup {conn[t]}
    /\ GetconnForget(t)
    /\ UNCHANGED <<config, gen, dbpool, wpool, waiters, connOpen,
                   site, conn, attempt, firstErr, firstConn>>
    /\ UNCHANGED lifeVars
    /\ UNCHANGED handleVars
    /\ UNCHANGED ev

\* Line 373: the statement runs on a new cursor of the connection.
NtStatement(t) ==
    /\ pc[t] = "nt_stmt"
    /\ \E r \in StatementOutcomes :
          /\ exc' = [exc EXCEPT ![t] = DriverExc(conn[t], r)]
          /\ connOpen' = DriverOpen(conn[t], r)
    /\ pc' = [pc EXCEPT ![t] = "nt_restore"]
    /\ UNCHANGED <<config, gen, dbpool, wpool, waiters, autocommit, gcVars,
                   site, conn, attempt, firstErr, firstConn>>
    /\ UNCHANGED lifeVars
    /\ UNCHANGED handleVars
    /\ UNCHANGED ev

\* A bug execute could have: the restore after the statement not in a finally
\* clause, so that a statement that raises skips it.
NtRestoreOnSuccessOnly(t) ==
    /\ pc[t] = "nt_restore"
    /\ IF exc[t] # NoExc
       THEN UNCHANGED <<exc, autocommit>>
       ELSE IF conn[t] \notin connOpen
       THEN /\ exc' = [exc EXCEPT ![t] = InterfaceError]
            /\ autocommit' = autocommit
       ELSE /\ exc' = exc
            /\ autocommit' = autocommit \ {conn[t]}
    /\ pc' = [pc EXCEPT ![t] = "putconn"]
    /\ UNCHANGED <<config, gen, dbpool, wpool, waiters, connOpen, gcVars,
                   site, conn, attempt, firstErr, firstConn>>
    /\ UNCHANGED lifeVars
    /\ UNCHANGED handleVars
    /\ UNCHANGED ev

\* Lines 374-375: set_session(autocommit=False) in the inner finally clause;
\* on a closed connection it raises, its exception replaces the statement's,
\* and the attribute stays as it is.  The outer finally clause is next.
NtRestore(t) ==
    /\ pc[t] = "nt_restore"
    /\ IF conn[t] \notin connOpen
       THEN /\ exc' = [exc EXCEPT ![t] = InterfaceError]
            /\ autocommit' = autocommit
       ELSE /\ exc' = exc
            /\ autocommit' = autocommit \ {conn[t]}
    /\ pc' = [pc EXCEPT ![t] = "putconn"]
    /\ UNCHANGED <<config, gen, dbpool, wpool, waiters, connOpen, gcVars,
                   site, conn, attempt, firstErr, firstConn>>
    /\ UNCHANGED lifeVars
    /\ UNCHANGED handleVars
    /\ UNCHANGED ev

\* ------------------------------------------------------------ PostgresDB.logout
\* The positions of a thread inside logout().
LifecyclePcs == {"logout", "lo_closeall", "lo_notify", "lo_clear"}

\* logout() is called (also by __del__, line 298).  lone records whether
\* the call overlaps a logout or login of another thread.
StartLogout(t) ==
    /\ Free(t)
    /\ pc' = [pc EXCEPT ![t] = "logout"]
    /\ attempt' = [attempt EXCEPT ![t] = 0]
    /\ site' = [site EXCEPT ![t] = "none"]
    /\ conn' = [conn EXCEPT ![t] = NoConn]
    /\ exc' = [exc EXCEPT ![t] = NoExc]
    /\ firstErr' = [firstErr EXCEPT ![t] = NoExc]
    /\ firstConn' = [firstConn EXCEPT ![t] = NoConn]
    /\ GetconnForget(t)
    /\ lone' = [u \in Threads |->
                  u = t /\ \A v \in Threads \ {t} : pc[v] \notin LifecyclePcs]
    /\ UNCHANGED <<poolVars, behind>>
    /\ HandleDropped(t)
    /\ UNCHANGED ev

\* logout() is left by thread t with exception e (NoExc: it returned).
LogoutEnds(t, e) ==
    /\ pc' = [pc EXCEPT ![t] = "done"]
    /\ exc' = [exc EXCEPT ![t] = e]
    /\ lone' = [lone EXCEPT ![t] = FALSE]
    /\ UNCHANGED <<site, conn, attempt, firstErr, firstConn>>

\* Line 289: nothing to do when there is no pool.
LogoutCheck(t) ==
    /\ pc[t] = "logout"
    /\ IF dbpool
       THEN /\ pc' = [pc EXCEPT ![t] = "lo_closeall"]
            /\ UNCHANGED <<site, conn, exc, attempt, firstErr, firstConn, lone>>
       ELSE LogoutEnds(t, NoExc)
    /\ UNCHANGED <<poolVars, gcVars, behind>>
    /\ UNCHANGED handleVars
    /\ UNCHANGED ev

\* Line 294 reads self._pool again and calls closeall: lines 153-154, under
\* the lock.
LogoutCloseall(t) ==
    /\ pc[t] = "lo_closeall"
    /\ IF ~dbpool
       THEN /\ LogoutEnds(t, AttributeError)
            /\ UNCHANGED <<wpool, connOpen>>
       ELSE LET r == _closeall(wpool) IN
            /\ wpool' = r.p
            /\ connOpen' = connOpen \ r.closes
            /\ IF r.err = NoExc
               THEN /\ pc' = [pc EXCEPT ![t] = "lo_notify"]
                    /\ UNCHANGED <<site, conn, exc, attempt, firstErr, firstConn, lone>>
               ELSE LogoutEnds(t, r.err)
    /\ UNCHANGED <<config, gen, dbpool, waiters, autocommit, gcVars, behind>>
    /\ UNCHANGED handleVars
    /\ UNCHANGED ev

\* closeall, lines 155-156: notify_all() wakes every thread waiting on the
\* pool's condition variable.
LogoutNotifyAll(t) ==
    /\ pc[t] = "lo_notify"
    /\ waiters' = waiters \ WaitersWith(t)
    /\ wokenBy' = [w \in Threads |->
                     IF w \in WaitersWith(t) THEN "notify_all" ELSE wokenBy[w]]
    /\ pc' = [pc EXCEPT ![t] = "lo_clear"]
    /\ LeavesPool(t)
    /\ UNCHANGED <<config, gen, dbpool, wpool, connOpen, autocommit,
                   site, conn, exc, attempt, firstErr, firstConn,
                   waits, tries, relSeen, gcResult, lone>>
    /\ UNCHANGED handleVars
    /\ UNCHANGED ev

\* A bug logout could have: line 295 missing, the closed pool stays in place.
LogoutClearForgets(t) ==
    /\ pc[t] = "lo_clear"
    /\ LogoutEnds(t, NoExc)
    /\ UNCHANGED <<poolVars, gcVars, behind>>
    /\ UNCHANGED handleVars
    /\ UNCHANGED ev

\* Line 295: self._pool = None.
LogoutClear(t) ==
    /\ pc[t] = "lo_clear"
    /\ dbpool' = FALSE
    /\ LogoutEnds(t, NoExc)
    /\ UNCHANGED <<config, gen, wpool, waiters, connOpen, autocommit, gcVars, behind>>
    /\ UNCHANGED handleVars
    /\ UNCHANGED ev

\* ------------------------------------------------------------- PostgresDB.login
\* The identities free for the connections of a new pool: the old pool is
\* dropped with its lists, the threads other than t keep what they refer to.
LoginFreeIds(t) ==
    (1..MaxConnId) \ ({conn[u] : u \in Threads \ {t}}
                         \cup {firstConn[u] : u \in Threads \ {t}}
                         \cup {txn[u] : u \in Threads \ {t}}
                         \cup {cursor[u] : u \in Threads \ {t}})

\* The n smallest elements of S, in ascending order.
RECURSIVE FirstIds(_, _)
FirstIds(S, n) ==
    IF n = 0 THEN <<>>
    ELSE LET m == CHOOSE i \in S : \A j \in S : i <= j
         IN <<m>> \o FirstIds(S \ {m}, n - 1)

\* The positions of a thread inside a method of the pool.
PoolMethodPcs == {"getconn", "gc_except", "prewait", "waiting", "notify", "lo_notify"}

\* Lines 268-283 (register_hstore False): login() builds a new pool with
\* minconn new connections.  It is called on a facade that logout() has left
\* without a pool, so the pool it replaces is closed.
Login(t) ==
    /\ Free(t)
    /\ ~dbpool
    /\ gen <= MaxLogins
    /\ Cardinality(LoginFreeIds(t)) >= config.minconn
    /\ LET conns == FirstIds(LoginFreeIds(t), config.minconn) IN
       /\ wpool' = NewPool(conns)
       /\ connOpen' = connOpen \cup Range(conns)
       /\ autocommit' = autocommit \ Range(conns)
    /\ dbpool' = TRUE
    /\ gen' = gen + 1
    /\ behind' = [u \in Threads |->
                    IF pc[u] \in PoolMethodPcs THEN behind[u] + 1 ELSE 0]
    /\ lone' = [u \in Threads |-> FALSE]
    /\ pc' = [pc EXCEPT ![t] = "done"]
    /\ attempt' = [attempt EXCEPT ![t] = 0]
    /\ site' = [site EXCEPT ![t] = "none"]
    /\ conn' = [conn EXCEPT ![t] = NoConn]
    /\ exc' = [exc EXCEPT ![t] = NoExc]
    /\ firstErr' = [firstErr EXCEPT ![t] = NoExc]
    /\ firstConn' = [firstConn EXCEPT ![t] = NoConn]
    /\ GetconnForget(t)
    /\ UNCHANGED <<config, waiters>>
    /\ HandleDropped(t)
    /\ UNCHANGED ev

\* ------------------------------------------- a handle in the caller's hands
\* Line 310 and lines 166-170: the caller takes a handle from transaction()
\* and keeps it; all three fields are None.
HandleNew(t) ==
    /\ Free(t)
    /\ pc' = [pc EXCEPT ![t] = "held"]
    /\ attempt' = [attempt EXCEPT ![t] = 0]
    /\ site' = [site EXCEPT ![t] = "none"]
    /\ conn' = [conn EXCEPT ![t] = NoConn]
    /\ exc' = [exc EXCEPT ![t] = NoExc]
    /\ firstErr' = [firstErr EXCEPT ![t] = NoExc]
    /\ firstConn' = [firstConn EXCEPT ![t] = NoConn]
    /\ GetconnForget(t)
    /\ HandleDropped(t)
    /\ UNCHANGED poolVars
    /\ UNCHANGED lifeVars
    /\ UNCHANGED ev

\* Lines 173-175: the caller enters (`with`) the handle it holds, whatever the
\* handle has been through.  The guard looks at the connection field only;
\* past it self._db._pool is read and getconn called.
HandleEnter(t) ==
    /\ pc[t] = "held"
    /\ attempt[t] = 0
    /\ GetconnForget(t)
    /\ IF conn[t] # NoConn
       THEN HandleLeft(t, conn[t], UsageError)
       ELSE IF dbpool
       THEN /\ pc' = [pc EXCEPT ![t] = "getconn"]
            /\ site' = [site EXCEPT ![t] = "enter"]
            /\ exc' = [exc EXCEPT ![t] = NoExc]
            /\ UNCHANGED <<conn, attempt, firstErr, firstConn, handleVars>>
       ELSE HandleLeft(t, NoConn, AttributeError)
    /\ UNCHANGED poolVars
    /\ UNCHANGED lifeVars
    /\ UNCHANGED ev

\* Lines 173-174 inside the `with` block: the body enters the handle a second
\* time.  The connection field is set, so the guard raises before getconn;
\* the exception leaves the block through __exit__.
HandleReEnter(t) ==
    /\ pc[t] = "body"
    /\ Direct(t)
    /\ conn[t] # NoConn
    /\ exc' = [exc EXCEPT ![t] = UsageError]
    /\ pc' = [pc EXCEPT ![t] = "tx_exit"]
    /\ UNCHANGED <<site, conn, attempt, firstErr, firstConn>>
    /\ UNCHANGED <<poolVars, gcVars, lifeVars, handleVars>>
    /\ UNCHANGED ev

\* Lines 197-224 outside a `with` block: an operation of the handle runs its
\* statement on self.cursor.  Without a cursor that is an AttributeError; a
\* cursor that is still there runs the statement on its connection, wherever
\* that connection is by now.
HandleUse(t) ==
    /\ pc[t] = "held"
    /\ attempt[t] = 0
    /\ IF cursor[t] = NoConn
       THEN /\ exc' = [exc EXCEPT ![t] = AttributeError]
            /\ connOpen' = connOpen
       ELSE \E r \in StatementOutcomes :
               /\ exc' = [exc EXCEPT ![t] = DriverExc(cursor[t], r)]
               /\ connOpen' = DriverOpen(cursor[t], r)
    /\ UNCHANGED <<config, gen, dbpool, wpool, waiters, autocommit>>
    /\ UNCHANGED <<pc, site, conn, attempt, firstErr, firstConn>>
    /\ UNCHANGED <<gcVars, lifeVars, handleVars>>
    /\ UNCHANGED ev

\* ------------------------------------------------------------ specification
Next ==
    \E t \in Threads :
        \/ StartCall(t)
        \/ TxEnter(t)
        \/ GetconnFirst(t)
        \/ GetconnExcept(t)
        \/ GetconnWait(t)
        \/ Timeout(t)
        \/ GetconnSecond(t)
        \/ ConnEnter(t)
        \/ CursorOpen(t)
        \/ Body(t)
        \/ TxExit(t)
        \/ PutconnLocked(t)
        \/ PutconnNotify(t)
        \/ StartExecute(t)
        \/ ExecuteGetconn(t)
        \/ NtSetSession(t)
        \/ NtStatement(t)
        \/ NtRestore(t)
        \/ StartLogout(t)
        \/ LogoutCheck(t)
        \/ LogoutCloseall(t)
        \/ LogoutNotifyAll(t)
        \/ LogoutClear(t)

Spec == Init /\ [][Next]_vars

\* The facade with login() after logout() as well.
NextLifecycle ==
    \/ Next
    \/ \E t \in Threads : Login(t)

\* Logging out and in again does not depend on the size of the pool: the
\* lifecycle is explored for a pool of one connection.
InitLifecycle == Init /\ config.minconn = 1 /\ config.maxconn = 1

SpecLifecycle == InitLifecycle /\ [][NextLifecycle]_vars

\* The transactional operations of the facade together with callers that take
\* handles from transaction() and drive them themselves, on a pool that stays
\* logged in.  The first MaxHandleCallers threads are such callers.
HandleCallers == 1..MaxHandleCallers

NextHandle ==
    \E t \in Threads :
        \/ t \in HandleCallers /\ HandleNew(t)
        \/ HandleEnter(t)
        \/ HandleReEnter(t)
        \/ HandleUse(t)
        \/ StartCall(t)
        \/ TxEnter(t)
        \/ GetconnFirst(t)
        \/ GetconnExcept(t)
        \/ GetconnWait(t)
        \/ Timeout(t)
        \/ GetconnSecond(t)
        \/ ConnEnter(t)
        \/ CursorOpen(t)
        \/ Body(t)
        \/ TxExit(t)
        \/ PutconnLocked(t)
        \/ PutconnNotify(t)

\* What a handle does after its exit does not depend on the size of the
\* pool: handles are explored for a pool of one connection.
InitHandle == Init /\ config.minconn = 1 /\ config.maxconn = 1

SpecHandle == InitHandle /\ [][NextHandle]_vars

\* ------------------------------------------------- _backported_execute_values
\* A statement template is a sequence of characters; those that matter to
\* the splitting are the percent sign, the s of the placeholder, the newline
\* (which `.` of the pattern at line 20 does not match) and any other one.
NL == "\n"
Alphabet == {"%", "s", "a", NL}

\* All sequences over S of length at most n.
SeqsUpTo(S, n) == UNION {[1..k -> S] : k \in 0..n}

\* Line 20: re.split(br'(%.)', sql) gives the texts between the matches and,
\* for the capture group, the matches themselves, alternating; a match is a
\* percent sign and one character that is not a newline.  lit is the text
\* since the last match.
RECURSIVE re_split(_, _)
re_split(s, lit) ==
    IF s = <<>> THEN <<lit>>
    ELSE IF Len(s) >= 2 /\ s[1] = "%" /\ s[2] # NL
    THEN <<lit, <<s[1], s[2]>>>> \o re_split(SubSeq(s, 3, Len(s)), <<>>)
    ELSE re_split(Tail(s), Append(lit, s[1]))

\* Lines 23 and 33: curr.append(token), curr being pre or post.
AppendCurr(st, token) ==
    IF st.curr = "pre"
    THEN [st EXCEPT !.pre = Append(@, token)]
    ELSE [st EXCEPT !.post = Append(@, token)]

\* Lines 21-36: the loop over the tokens, left as soon as one raises.
RECURSIVE split_loop(_, _)
split_loop(tokens, st) ==
    IF tokens = <<>> \/ st.err # NoExc THEN st
    ELSE LET token == Head(tokens) IN
         split_loop(Tail(tokens),
            IF Len(token) # 2 \/ token[1] # "%" THEN AppendCurr(st, token)
            ELSE IF token[2] = "s"
            THEN IF st.curr = "pre"
                 THEN [st EXCEPT !.curr = "post"]
                 ELSE [st EXCEPT !.err = ValueError]
            ELSE IF token[2] = "%" THEN AppendCurr(st, <<"%">>)
            ELSE [st EXCEPT !.err = ValueError])

\* Lines 12-41: the snippets before and after the placeholder, or ValueError.
__backported_split_sql(sql) ==
    LET st == split_loop(re_split(sql, <<>>),
                         [curr |-> "pre", pre |-> <<>>, post |-> <<>>, err |-> NoExc])
    IN IF st.err = NoExc /\ st.curr = "pre" THEN [st EXCEPT !.err = ValueError] ELSE st

\* What cur.fetchall() can give after the statement of one page: a row for
\* each argument row (RETURNING), or none.
Replies(page) == {page, <<>>}

\* The call _backported_execute_values(cur, sql, argslist, page_size=p,
\* fetch=f) before its first step.
Batch(sql, argslist, p, f) ==
    [NoBatch EXCEPT !.pc = "split", !.sql = sql, !.argslist = argslist,
                    !.page_size = p, !.fetch = f]

\* Lines 75-77: the template is split before the loop over the pages; the
\* result list exists with fetch only (ev.fetch tells the list from None).
EvSplit ==
    /\ ev.pc = "split"
    /\ LET r == __backported_split_sql(ev.sql) IN
       ev' = IF r.err # NoExc
             THEN [ev EXCEPT !.pc = "raised", !.err = r.err]
             ELSE [ev EXCEPT !.pc = "paginate", !.pre = r.pre, !.post = r.post]
    /\ UNCHANGED facadeVars

\* Lines 53-54: the generator takes the next row into the page.
EvFill ==
    /\ ev.pc = "paginate"
    /\ Len(ev.page) < ev.page_size
    /\ ev.it < Len(ev.argslist)
    /\ ev' = [ev EXCEPT !.page = Append(@, ev.argslist[ev.it + 1]), !.it = @ + 1]
    /\ UNCHANGED facadeVars

\* A bug the loop could have: line 88 assigning what fetchall gives instead of
\* extending the result by it.
EvYieldOverwritesResult ==
    /\ ev.pc = "paginate"
    /\ \/ Len(ev.page) = ev.page_size
       \/ ev.it = Len(ev.argslist) /\ ev.page # <<>>
    /\ \E reply \in Replies(ev.page), o \in {"ok", "error"} :
          ev' = IF o = "error"
                THEN [ev EXCEPT !.pc = "raised", !.err = StatementError,
                                !.executed = Append(@, ev.page)]
                ELSE [ev EXCEPT !.pc = IF Len(ev.page) = ev.page_size
                                       THEN "paginate" ELSE "returned",
                                !.page = <<>>,
                                !.executed = Append(@, ev.page),
                                !.fetched = IF ev.fetch THEN Append(@, reply) ELSE @,
                                !.result = IF ev.fetch THEN reply ELSE @]
    /\ UNCHANGED facadeVars

\* Lines 55-59 and 78-88: the generator yields the page, when it is full
\* (line 55, then a new page at line 56) or when the rows have run out and it is
\* not empty (line 59, then the generator returns); the loop body sends one
\* statement with the rows of the page (line 86), which the server can
\* refuse, and with fetch extends the result by what fetchall gives.
EvYield ==
    /\ ev.pc = "paginate"
    /\ \/ Len(ev.page) = ev.page_size
       \/ ev.it = Len(ev.argslist) /\ ev.page # <<>>
    /\ \E reply \in Replies(ev.page), o \in {"ok", "error"} :
          ev' = IF o = "error"
                THEN [ev EXCEPT !.pc = "raised", !.err = StatementError,
                                !.executed = Append(@, ev.page)]
                ELSE [ev EXCEPT !.pc = IF Len(ev.page) = ev.page_size
                                       THEN "paginate" ELSE "returned",
                                !.page = <<>>,
                                !.executed = Append(@, ev.page),
                                !.fetched = IF ev.fetch THEN Append(@, reply) ELSE @,
                                !.result = IF ev.fetch THEN @ \o reply ELSE @]
    /\ UNCHANGED facadeVars

\* Lines 57-60 and 90: the rows have run out with the page empty; nothing is
\* yielded and the result is returned.
EvStop ==
    /\ ev.pc = "paginate"
    /\ ev.it = Len(ev.argslist)
    /\ ev.page = <<>>
    /\ ev' = [ev EXCEPT !.pc = "returned"]
    /\ UNCHANGED facadeVars

NextBatch == EvSplit \/ EvFill \/ EvYield \/ EvStop

\* The inputs of the calls looked into: every template with one argument
\* list, and every argument list with one template.
Templates == SeqsUpTo(Alphabet, MaxSqlLen)
ArgLists == SeqsUpTo(1..MaxRowValue, MaxRows)
BatchInputs ==
    {Batch(sql, <<1, 2, 1>>, p, f) :
        sql \in Templates, p \in 1..MaxPageSize, f \in BOOLEAN}
    \cup {Batch(<<"a", "%", "s">>, a, p, f) :
        a \in ArgLists, p \in 1..MaxPageSize, f \in BOOLEAN}

InitBatch ==
    /\ InitFacade
    /\ config = [minconn |-> 1, maxconn |-> 1, pool_timeout |-> "None"]
    /\ ev \in BatchInputs

SpecBatch == InitBatch /\ [][NextBatch]_vars

\* ------------------------------------------------------------------ claims
\* The Transaction of thread t holds a connection: from the return of getconn
\* (line 175) until putconn takes it back (line 184 or 194).
Open(t) == pc[t] \in {"conn_enter", "cursor", "body", "tx_exit", "putconn"}

\* Thread t holds a connection of the pool, in a Transaction or in the
\* non-transactional execute (lines 369-377).
Holds(t) == Open(t) \/ pc[t] \in {"nt_set", "nt_stmt", "nt_restore"}

\* Thread t is inside a Transaction's __enter__, body or __exit__.
InTransaction(t) ==
    pc[t] \in {"getconn", "gc_except", "prewait", "waiting", "conn_enter",
               "cursor", "body", "tx_exit", "putconn", "notify"}

\* The current getconn call of thread t has made its second attempt.
Retried(t) == tries[t] = 2

\* C1: the number of connections in use never exceeds maxconn (the pool
\* being built from minconn >= 1 and maxconn >= 1).
C1_InUseAtMostMaxconn == Cardinality(wpool.used) <= config.maxconn

\* C2: no connection is held by two open Transactions at the same time.
C2_ExclusiveConnection ==
    \A t1, t2 \in Threads :
        (t1 # t2 /\ Holds(t1) /\ Holds(t2)) => conn[t1] # conn[t2]

C2_Witness ==
    \E t1, t2 \in Threads :
        /\ t1 # t2
        /\ pc[t1] = "body" /\ pc[t2] = "body"
        /\ conn[t1] # NoConn /\ conn[t2] # NoConn

\* C3: with no pool_timeout configured, no thread blocks on the condition
\* variable: getconn on an exhausted pool fails at once.
C3_NoWaitWithoutTimeout ==
    \A t \in Threads : config.pool_timeout = "None" => pc[t] # "waiting"

\* C4: a thread that was waiting in getconn while another thread released a
\* connection to the available list gets a connection from its second attempt
\* (the pool staying open).
C4_ReleaseDuringWaitSucceeds ==
    \A t \in Threads :
        (config.pool_timeout # "None" /\ relSeen[t] /\ Retried(t) /\ ~wpool.closed)
            => gcResult[t] = "conn"

\* C5: getconn on a closed pool raises the pool-closed error and never gets
\* to the wait: from the first attempt on a closed pool the thread steps to
\* the handler with that error, and from there out of getconn with it.
C5_ClosedPoolRefuses ==
    [][\A t \in Threads :
          /\ (pc[t] = "getconn" /\ wpool.closed /\ pc'[t] # pc[t])
                => (pc'[t] = "gc_except" /\ exc'[t] = PoolClosed)
          /\ (pc[t] = "gc_except" /\ exc[t] = PoolClosed /\ pc'[t] # pc[t])
                => /\ pc'[t] = "done"
                   /\ exc'[t] = PoolClosed
                   /\ gcResult'[t] = PoolClosed
                   /\ waits'[t] = 0
                   /\ t \notin waiters']_vars

C5_Witness ==
    \E t \in Threads :
        /\ pc[t] = "done"
        /\ gcResult[t] = PoolClosed
        /\ tries[t] = 1 /\ waits[t] = 0
        /\ config.pool_timeout = "T"
        /\ \E u \in Threads : pc[u] = "lo_clear"

C7_RetryExactlyOnce ==
    \A t \in Threads :
        /\ attempt[t] <= 2
        /\ attempt[t] = 2 => firstErr[t] = InterfaceError
        /\ (pc[t] = "done" /\ firstErr[t] = InterfaceError) => attempt[t] = 2

C7_Witness ==
    \E t \in Threads :
        /\ pc[t] = "done"
        /\ attempt[t] = 2
        /\ firstErr[t] = InterfaceError
        /\ exc[t] = InterfaceError

\* C8: when the first Transaction of a facade call ends with any error other
\* than InterfaceError, the call ends with that error and opens no second
\* Transaction.
C8_OnlyInterfaceErrorRetries ==
    \A t \in Threads :
        firstErr[t] \notin {NoExc, InterfaceError}
            => (pc[t] = "done" /\ attempt[t] = 1 /\ exc[t] = firstErr[t])

C8_Witness ==
    /\ \E t \in Threads : pc[t] = "done" /\ firstErr[t] = StatementError
    /\ \E t \in Threads : pc[t] = "done" /\ firstErr[t] = PoolExhausted

\* C9: the second Transaction of a facade call never runs on the connection
\* of the first one, which is not in the available list either (until the
\* call has ended).
C9_RetryOnFreshConnection ==
    \A t \in Threads :
        (attempt[t] = 2 /\ pc[t] # "done") =>
            /\ firstConn[t] # NoConn
            /\ firstConn[t] \notin Range(wpool.pool)
            /\ conn[t] # firstConn[t]

C9_Witness ==
    \E t \in Threads :
        /\ attempt[t] = 2
        /\ pc[t] = "body"
        /\ conn[t] \in connOpen

EnterReleased(t) ==
    /\ site[t] = "enterfail"
    /\ pc[t] = "putconn"
    /\ pc'[t] # "putconn"

\* The failed __enter__ of thread t is left in this step.
EnterFailed(t) ==
    /\ site[t] = "enterfail"
    /\ pc[t] \in {"putconn", "notify"}
    /\ pc'[t] \in {"done", "with"}

InExecute(t) == site[t] = "nontx"

C13_LogoutThenLogin ==
    /\ [][\A t \in Threads :
             (pc[t] = "logout" /\ ~dbpool /\ pc'[t] # pc[t])
                 => (pc'[t] = "done" /\ exc'[t] = NoExc /\ poolVars' = poolVars)]_vars
    /\ [][\A t \in Threads :
             (pc[t] \in LifecyclePcs /\ pc'[t] = "done" /\ lone[t])
                 => /\ exc'[t] = NoExc
                    /\ ~dbpool'
                    /\ wpool'.closed
                    /\ connOpen' \cap (Range(wpool'.pool) \cup wpool'.used) = {}]_vars
    /\ [][\A t \in Threads :
             /\ (pc[t] \in {"with", "execute"} /\ ~dbpool /\ pc'[t] # pc[t])
                   => /\ pc'[t] = "done"
                      /\ exc'[t] = AttributeError
                      /\ conn'[t] = NoConn
                      /\ wpool' = wpool
             /\ (~dbpool /\ conn'[t] # conn[t]) => conn'[t] = NoConn]_vars
    /\ [][gen' # gen
             => /\ ~dbpool /\ wpool.closed
                /\ dbpool' /\ ~wpool'.closed
                /\ wpool'.used = {}
                /\ Len(wpool'.pool) = config.minconn
                /\ Range(wpool'.pool) \subseteq connOpen']_vars

C13_Witness ==
    \E t, u \in Threads :
        /\ gen = 2
        /\ dbpool /\ ~wpool.closed
        /\ pc[t] = "body"
        /\ conn[t] \in wpool.used
        /\ conn[t] \in connOpen
        /\ pc[u] = "done" /\ exc[u] = NoExc /\ attempt[u] = 0

\* ---------------------------------------------------------------------- C14
\* __exit__ of the handle thread t drives itself ends in this step without an
\* exception of its own: putconn has returned (lines 194-195).
ExitReturns(t) ==
    /\ Direct(t) /\ site[t] = "exit" /\ pc[t] \in {"putconn", "notify"}
    /\ pc'[t] = "held" /\ exc'[t] = exc[t]

\* C14 (as stated): a handle that is entered while it holds a connection
\* raises the usage error and acquires nothing; a handle that has exited has
\* its connection, transaction and cursor references cleared, and it is never
\* entered a second time (a handle whose __enter__ asks the pool for a
\* connection has no cursor from an earlier entry).
C14_EnteredOnceAndCleared ==
    /\ [][\A t \in Threads :
            (pc[t] = "body" /\ Direct(t) /\ exc'[t] = UsageError)
                => wpool' = wpool /\ conn'[t] = conn[t]]_vars
    /\ [][\A t \in Threads :
            ExitReturns(t)
                => conn'[t] = NoConn /\ txn'[t] = NoConn /\ cursor'[t] = NoConn]_vars
    /\ [](\A t \in Threads :
            (pc[t] = "getconn" /\ Direct(t)) => cursor[t] = NoConn)

\* ---------------------------------------------------------------------- C15
RECURSIVE Flatten(_)
Flatten(ss) == IF ss = <<>> THEN <<>> ELSE Head(ss) \o Flatten(Tail(ss))

\* C15: for n rows and page size p >= 1 the pages sent are consecutive pieces
\* of the argument list in order, each of 1..p rows and all but the last of
\* exactly p; a call that returns has sent one statement per page, ceil(n/p)
\* in all (none for n = 0), covering every row, and with fetch its result is
\* what the statements gave, concatenated in page order.
C15_PagesInOrder ==
    LET n == Len(ev.argslist)
        p == ev.page_size
        sent == ev.executed
    IN /\ Flatten(sent) \o (IF ev.pc = "raised" THEN <<>> ELSE ev.page)
             = SubSeq(ev.argslist, 1, ev.it)
       /\ \A i \in 1..Len(sent) :
             /\ Len(sent[i]) \in 1..p
             /\ i < Len(sent) => Len(sent[i]) = p
       /\ ev.pc = "paginate" => \A i \in 1..Len(sent) : Len(sent[i]) = p
       /\ ev.pc = "returned" =>
             /\ Flatten(sent) = ev.argslist
             /\ Len(sent) = (n + p - 1) \div p
             /\ ev.fetch => /\ Len(ev.fetched) = Len(sent)
                            /\ ev.result = Flatten(ev.fetched)
             /\ ~ev.fetch => ev.result = <<>>

\* Five rows with page size 2 have gone out in three statements and come back
\* in the order of the rows.
C15_Witness ==
    /\ ev.pc = "returned" /\ ev.fetch
    /\ Len(ev.argslist) = 5 /\ ev.page_size = 2
    /\ Len(ev.executed) = 3 /\ Len(ev.executed[3]) = 1
    /\ ev.result = ev.argslist
    /\ ev.argslist[1] # ev.argslist[2]

\* ---------------------------------------------------------------------- C16
\* The characters that follow a percent sign, reading the template from left
\* to right (a percent sign at the very end is followed by nothing).
RECURSIVE Escapes(_)
Escapes(s) ==
    IF s = <<>> THEN <<>>
    ELSE IF s[1] = "%" /\ Len(s) >= 2
    THEN <<s[2]>> \o Escapes(SubSeq(s, 3, Len(s)))
    ELSE Escapes(Tail(s))

\* Exactly one %s and otherwise only %%.
OnePlaceholder(s) ==
    LET e == Escapes(s) IN
    /\ Cardinality({i \in 1..Len(e) : e[i] = "s"}) = 1
    /\ \A i \in 1..Len(e) : e[i] \in {"s", "%"}

\* C16 (as stated): the split succeeds exactly when the template has exactly
\* one %s and no other escape than %%, and a template it refuses makes the
\* call fail before any statement is executed.
C16_SplitSucceedsExactly ==
    /\ ev.pc \in {"paginate", "returned", "raised"} =>
          (ev.err = ValueError <=> ~OnePlaceholder(ev.sql))
    /\ ev.err = ValueError => ev.executed = <<>>

\* ---------------------------------------------------------------------- C17
\* No other thread is inside an operation: nothing is left that could notify.
Alone(t) == \A u \in Threads \ {t} : Free(u)

\* C17 (as stated): no wake-up is lost between the failed attempt and the
\* wait.  _getconn fails with the pool exhausted only when no connection is
\* available, so a thread that is blocked in the wait while a connection is
\* available and no putconn is under way any more has missed the notify of
\* the putconn that made it available: it stays blocked until its timeout.
C17_NoLostWakeup ==
    \A t \in Threads :
        ~(/\ pc[t] = "waiting" /\ t \in waiters
          /\ ~wpool.closed /\ wpool.pool # <<>>
          /\ Alone(t))

\* ---------------------------------------------------------------------- C18
\* C18 (as stated): closeall() wakes every thread that is inside getconn on
\* the exhausted pool, waiting or about to wait: once the pool is closed a
\* thread is blocked in the wait only as long as the notify_all of a closeall
\* is still to come.
C18_CloseallWakesAll ==
    \A t \in Threads :
        (pc[t] = "waiting" /\ t \in waiters /\ wpool.closed)
            => \E u \in Threads : pc[u] = "lo_notify"

\* ---------------------------------------------------------------------- C19
\* C19 (as stated): a putconn that frees capacity on an exhausted pool (every
\* connection in use, none available) while a thread is blocked in the wait
\* goes on to notify, whether it makes the connection available or discards it.
C19_FreeingPutconnWakes ==
    [][\A t \in Threads :
          (/\ pc[t] = "putconn" /\ pc'[t] # "putconn"
           /\ wpool.pool = <<>> /\ Cardinality(wpool.used) = config.maxconn
           /\ Cardinality(wpool'.used) < Cardinality(wpool.used)
           /\ waiters # {})
              => pc'[t] = "notify"]_vars

\* ---------------------------------------------------------------------- C20
\* The second Transaction of the facade call of thread t is on its way to a
\* connection.
Retrying(t) ==
    attempt[t] = 2 /\ pc[t] \in {"with", "getconn", "gc_except", "prewait", "waiting"}

\* Thread t is the only user of the facade: the others have never called it.
OnlyUser(t) == \A u \in Threads \ {t} : pc[u] = "idle"

\* C20: the connection of the first Transaction is out of the pool's used set
\* before the second Transaction asks for one (unless another thread has got
\* it since), a thread refers to no connection while it asks, and the retry of
\* the only user of a pool with maxconn = 1 neither finds the pool exhausted
\* nor waits.
C20_OneConnectionPerCall ==
    \A t \in Threads :
        /\ Retrying(t) =>
              /\ conn[t] = NoConn
              /\ firstConn[t] \in wpool.used =>
                    \E u \in Threads \ {t} : conn[u] = firstConn[t]
        /\ (attempt[t] = 2 /\ config.maxconn = 1 /\ OnlyUser(t)) =>
              /\ pc[t] \notin {"gc_except", "prewait", "waiting"}
              /\ exc[t] # PoolExhausted
              /\ waits[t] = 0

\* The only user of a pool with maxconn = 1 is in the body of its second
\* Transaction, on a connection, after the first one broke.
C20_Witness ==
    \E t \in Threads :
        /\ attempt[t] = 2 /\ config.maxconn = 1 /\ OnlyUser(t)
        /\ pc[t] = "body" /\ conn[t] \in wpool.used
        /\ firstConn[t] # NoConn /\ firstConn[t] \notin connOpen

====
